---- MODULE Spec2Model ----
(***************************************************************************)
(* Model of FitPlan-API.js: the exercise catalogue served over HTTP, its   *)
(* API-key store (in-memory mapping + api-keys.json), the key gate, the    *)
(* exact/prefix router and the pagination and filter helpers.              *)
(*                                                                         *)
(* JavaScript values are represented as follows.  A string is a TLA+       *)
(* string.  A value that may be undefined or null is a tuple: <<>> is      *)
(* undefined/null, <<v>> is the value v.  NaN is <<>> in the result of     *)
(* parseInt.  An object used as a map (API_KEYS) is the sequence of its    *)
(* own properties [key, value] in insertion order.  A value sent as a      *)
(* response body carries its JSON type: [type, value].                     *)
(***************************************************************************)
EXTENDS Integers, Sequences, FiniteSets, TLC

(***************************************************************************)
(* Bounds of the model.                                                    *)
(***************************************************************************)
MaxData == 3        \* longest sequence handed to paginateResults
MaxPending == 2     \* most request handlers suspended at the await at once

Undefined == <<>>
Null == <<>>

Some(v) == <<v>>

Min(a, b) == IF a < b THEN a ELSE b

Max(a, b) == IF a > b THEN a ELSE b

DEFAULT_LIMIT == 20

(***************************************************************************)
(* Strings.                                                                *)
(***************************************************************************)
CharAt(s, i) == SubSeq(s, i, i)

RECURSIVE IndexIn(_, _, _)
\* position of the one-character string c in s at or after i, 0 if absent
IndexIn(c, s, i) ==
  IF i > Len(s) THEN 0
  ELSE IF CharAt(s, i) = c THEN i
  ELSE IndexIn(c, s, i + 1)

UpperChars == "ABCDEFGHIJKLMNOPQRSTUVWXYZ"

LowerChars == "abcdefghijklmnopqrstuvwxyz"

RECURSIVE LowerFrom(_, _)
LowerFrom(s, i) ==
  IF i > Len(s) THEN ""
  ELSE LET c == CharAt(s, i)
           k == IndexIn(c, UpperChars, 1)
       IN (IF k = 0 THEN c ELSE CharAt(LowerChars, k)) \o LowerFrom(s, i + 1)

\* String.prototype.toLowerCase
toLowerCase(s) == LowerFrom(s, 1)

\* String.prototype.startsWith
startsWith(s, prefix) ==
  /\ Len(s) >= Len(prefix)
  /\ SubSeq(s, 1, Len(prefix)) = prefix

\* String.prototype.includes
includes(s, sub) ==
  \E i \in 1..(Len(s) + 1) :
     /\ i + Len(sub) - 1 <= Len(s)
     /\ SubSeq(s, i, i + Len(sub) - 1) = sub

\* String.prototype.slice(start) with start >= 0
sliceFrom(s, start) == SubSeq(s, start + 1, Len(s))

(***************************************************************************)
(* parseInt(x) with no radix: undefined gives NaN; leading blanks are      *)
(* skipped; an optional sign; a 0x/0X prefix selects radix 16; the longest *)
(* run of digits is read and the rest ignored; no digit at all gives NaN.  *)
(***************************************************************************)
DecDigits == "0123456789"

HexDigits == "0123456789abcdef"

RECURSIVE SkipBlanks(_, _)
SkipBlanks(s, i) ==
  IF i <= Len(s) /\ CharAt(s, i) = " " THEN SkipBlanks(s, i + 1) ELSE i

RECURSIVE ReadDigits(_, _, _, _, _)
\* <<value, number of digits read>> of the digit run of s starting at i
ReadDigits(s, i, digits, acc, n) ==
  IF i > Len(s) THEN <<acc, n>>
  ELSE LET k == IndexIn(toLowerCase(CharAt(s, i)), digits, 1)
       IN IF k = 0 THEN <<acc, n>>
          ELSE ReadDigits(s, i + 1, digits, acc * Len(digits) + (k - 1), n + 1)

parseInt(x) ==
  IF x = Undefined THEN <<>>
  ELSE LET s == x[1]
           b == SkipBlanks(s, 1)
           signed == b <= Len(s) /\ CharAt(s, b) \in {"-", "+"}
           neg == signed /\ CharAt(s, b) = "-"
           d == IF signed THEN b + 1 ELSE b
           hex == d + 1 <= Len(s) /\ SubSeq(s, d, d + 1) \in {"0x", "0X"}
           r == IF hex THEN ReadDigits(s, d + 2, HexDigits, 0, 0)
                ELSE ReadDigits(s, d, DecDigits, 0, 0)
       IN IF r[2] = 0 THEN <<>>
          ELSE IF neg THEN <<0 - r[1]>> ELSE <<r[1]>>

\* parseInt(x) || dflt : NaN and 0 (and -0) are falsy
OrDefault(p, dflt) == IF p = <<>> \/ p[1] = 0 THEN dflt ELSE p[1]

(***************************************************************************)
(* Array.prototype.slice(start, end): a negative index counts from the     *)
(* end, both indices are clamped to [0, length].                           *)
(***************************************************************************)
RelIndex(i, len) == IF i < 0 THEN Max(len + i, 0) ELSE Min(i, len)

slice(data, start, end) ==
  LET k == RelIndex(start, Len(data))
      final == RelIndex(end, Len(data))
  IN IF final > k THEN SubSeq(data, k + 1, final) ELSE <<>>

\* the template literal `?offset=${o}&limit=${l}`
PageLink(o, l) == "?offset=" \o ToString(o) \o "&limit=" \o ToString(l)

\* the offset a link carries, as parseInt reads it back from the query
LinkOffset(link) == parseInt(Some(SubSeq(link, Len("?offset=") + 1, Len(link))))

\* the object literal paginateResults returns, without the Math.max clamp
PageOfNoClamp(data, parsedLimit, parsedOffset) ==
  [ count |-> Len(data),
    next |-> IF parsedOffset + parsedLimit < Len(data)
             THEN Some(PageLink(parsedOffset + parsedLimit, parsedLimit))
             ELSE Null,
    previous |-> IF parsedOffset > 0
                 THEN Some(PageLink(parsedOffset - parsedLimit, parsedLimit))
                 ELSE Null,
    results |-> slice(data, parsedOffset, parsedOffset + parsedLimit) ]

\* the object literal paginateResults returns
PageOf(data, parsedLimit, parsedOffset) ==
  [ count |-> Len(data),
    next |-> IF parsedOffset + parsedLimit < Len(data)
             THEN Some(PageLink(parsedOffset + parsedLimit, parsedLimit))
             ELSE Null,
    previous |-> IF parsedOffset > 0
                 THEN Some(PageLink(Max(0, parsedOffset - parsedLimit), parsedLimit))
                 ELSE Null,
    results |-> slice(data, parsedOffset, parsedOffset + parsedLimit) ]

ParsedLimit(limit) == OrDefault(parseInt(limit), DEFAULT_LIMIT)

ParsedOffset(offset) == OrDefault(parseInt(offset), 0)

paginateResults(data, limit, offset) ==
  PageOf(data, ParsedLimit(limit), ParsedOffset(offset))

(***************************************************************************)
(* The record store: exercises.json as loaded at startup.                  *)
(***************************************************************************)
exercises ==
  << [id |-> "0001", name |-> "3/4 sit-up", bodyPart |-> "waist",
      equipment |-> "body weight", target |-> "abs"],
     [id |-> "0002", name |-> "push-up", bodyPart |-> "chest",
      equipment |-> "body weight", target |-> "pectorals"],
     [id |-> "0003", name |-> "barbell bench press", bodyPart |-> "chest",
      equipment |-> "barbell", target |-> "pectorals"] >>

Obj(r) == [type |-> "object", value |-> r]

Arr(a) == [type |-> "array", value |-> a]

EmptyObject == [k \in {} |-> ""]

\* the callback of Object.entries(filters).every in filterExercises
FilterHolds(exercise, key, value) ==
  IF value = Undefined \/ value[1] = "" THEN TRUE
  ELSE CASE key = "name" ->
              includes(toLowerCase(exercise.name), toLowerCase(value[1]))
         [] key = "bodyPart" ->
              toLowerCase(exercise.bodyPart) = toLowerCase(value[1])
         [] key = "equipment" ->
              toLowerCase(exercise.equipment) = toLowerCase(value[1])
         [] key = "target" ->
              toLowerCase(exercise.target) = toLowerCase(value[1])
         [] OTHER -> TRUE

\* filters is a function from the filter keys present to their values
filterExercises(filters) ==
  SelectSeq(exercises,
            LAMBDA exercise :
              \A key \in DOMAIN filters : FilterHolds(exercise, key, filters[key]))

RECURSIVE Uniq(_)
\* [...new Set(a)] : first occurrences, in order
Uniq(a) ==
  IF a = <<>> THEN <<>>
  ELSE LET init == Uniq(SubSeq(a, 1, Len(a) - 1))
           x == a[Len(a)]
       IN IF \E i \in 1..Len(init) : init[i] = x THEN init ELSE Append(init, x)

RECURSIVE StrLess(_, _, _)
\* a < b as JavaScript compares strings, for the characters of Collation
Collation == " %-/0123456789ABCDEFGHIJKLMNOPQRSTUVWXYZabcdefghijklmnopqrstuvwxyz"

StrLess(a, b, i) ==
  IF i > Len(b) THEN FALSE
  ELSE IF i > Len(a) THEN TRUE
  ELSE LET x == IndexIn(CharAt(a, i), Collation, 1)
           y == IndexIn(CharAt(b, i), Collation, 1)
       IN IF x = y THEN StrLess(a, b, i + 1) ELSE x < y

RECURSIVE Sort(_)
\* Array.prototype.sort() of strings (insertion sort; the order is total)
Sort(a) ==
  IF a = <<>> THEN <<>>
  ELSE LET init == Sort(SubSeq(a, 1, Len(a) - 1))
           x == a[Len(a)]
           k == Cardinality({i \in 1..Len(init) : ~StrLess(x, init[i], 1)})
       IN SubSeq(init, 1, k) \o <<x>> \o SubSeq(init, k + 1, Len(init))

FieldList(field) == Sort(Uniq([i \in 1..Len(exercises) |-> exercises[i][field]]))

(***************************************************************************)
(* The key store.                                                          *)
(***************************************************************************)
\* property names every object inherits from Object.prototype
ObjectPrototypeKeys ==
  { "constructor", "__proto__", "toString", "toLocaleString", "valueOf",
    "hasOwnProperty", "isPrototypeOf", "propertyIsEnumerable",
    "__defineGetter__", "__defineSetter__", "__lookupGetter__",
    "__lookupSetter__" }

OwnKeys(obj) == {obj[i].key : i \in 1..Len(obj)}

\* obj[k] : the own property, else the inherited one, else undefined
Get(obj, k) ==
  IF k \in OwnKeys(obj)
  THEN Some(obj[CHOOSE i \in 1..Len(obj) : obj[i].key = k].value)
  ELSE IF k \in ObjectPrototypeKeys THEN Some([inherited |-> k])
  ELSE Undefined

\* !!obj[k] : every own value of the key store is an object, every
\* inherited property of Object.prototype is a function or an object
HasTruthy(obj, k) == Get(obj, k) # Undefined

\* obj[k] = v, dropping the other properties
PutAlone(obj, k, v) == << [key |-> k, value |-> v] >>

\* obj[k] = v : an existing property keeps its place, a new one is appended
Put(obj, k, v) ==
  IF k \in OwnKeys(obj)
  THEN [i \in 1..Len(obj) |->
          IF obj[i].key = k THEN [key |-> k, value |-> v] ELSE obj[i]]
  ELSE Append(obj, [key |-> k, value |-> v])

\* JSON.stringify(API_KEYS, null, 2): the members "key": {"createdAt": n}
\* of the text, in property order
JSONstringify(obj) ==
  [i \in 1..Len(obj) |-> <<obj[i].key, obj[i].value.createdAt>>]

RECURSIVE JSONparse(_)
\* JSON.parse of such a text: a repeated member overwrites the earlier one
JSONparse(text) ==
  IF text = <<>> THEN <<>>
  ELSE LET m == text[Len(text)]
       IN Put(JSONparse(SubSeq(text, 1, Len(text) - 1)), m[1],
              [createdAt |-> m[2]])

\* api-keys.json: missing, holding a JSON text, or holding anything else
NoFile == [kind |-> "missing", text |-> <<>>]

JsonFile(text) == [kind |-> "json", text |-> text]

BrokenFile == [kind |-> "broken", text |-> <<>>]

\* the value loadApiKeys leaves in API_KEYS
loadApiKeys(file) ==
  IF file.kind = "json" THEN JSONparse(file.text) ELSE <<>>

\* fs.writeFileSync(KEYS_FILE, text) with outcome "ok", or an error thrown
\* before the file was touched ("failed") or after it was truncated ("torn")
writeFileSync(file, text, outcome) ==
  CASE outcome = "ok" -> JsonFile(text)
    [] outcome = "failed" -> file
    [] outcome = "torn" -> BrokenFile

WriteOutcomes == {"ok", "failed", "torn"}

SavedMessage == "API keys saved to file"

SaveErrorMessage == "Error saving API keys:"

\* saveApiKeys: the file it leaves and the line it logs
saveApiKeysLosingLog(keys, file, outcome) ==
  [ file |-> writeFileSync(file, JSONstringify(keys), outcome),
    log |-> SavedMessage ]

saveApiKeys(keys, file, outcome) ==
  [ file |-> writeFileSync(file, JSONstringify(keys), outcome),
    log |-> IF outcome = "ok" THEN SavedMessage ELSE SaveErrorMessage ]

\* generateApiKey, given the bytes drawn, the clock and the write's outcome
generateApiKey(keys, file, apiKey, now, outcome) ==
  LET added == Put(keys, apiKey, [createdAt |-> now])
      saved == saveApiKeys(added, file, outcome)
  IN [ keys |-> added, file |-> saved.file, log |-> saved.log,
       apiKey |-> apiKey ]

(***************************************************************************)
(* Requests and responses.  A request is [method, pathname, query,         *)
(* xApiKey]; query holds the parameters the handlers read, each a string   *)
(* or undefined; xApiKey is the X-API-Key header or undefined.             *)
(***************************************************************************)
\* sendResponse(res, data, statusCode = 200): what is written to res
sendResponse(data, statusCode) == [statusCode |-> statusCode, data |-> data]

ErrorBody(message) == Obj([error |-> message])

\* a || b for strings that may be undefined: "" is falsy
OrElse(a, b) == IF a # Undefined /\ a[1] # "" THEN a ELSE b

PublicPaths == {"/docs", "/get-api-key"}

\* validateApiKey without its return false: the 401 is sent and the
\* request goes on to the routes
validateApiKeyFallThrough(req, keys) ==
  LET apiKey == OrElse(req.query.apiKey, req.xApiKey)
  IN IF req.pathname \in PublicPaths THEN [valid |-> TRUE, sent |-> <<>>]
     ELSE IF apiKey = Undefined \/ apiKey[1] = "" \/ ~HasTruthy(keys, apiKey[1])
     THEN [ valid |-> TRUE,
            sent |-> <<sendResponse(ErrorBody("Invalid or missing API key"), 401)>> ]
     ELSE [valid |-> TRUE, sent |-> <<>>]

\* validateApiKey: its return value and what it wrote to res
validateApiKey(req, keys) ==
  LET apiKey == OrElse(req.query.apiKey, req.xApiKey)
  IN IF req.pathname \in PublicPaths THEN [valid |-> TRUE, sent |-> <<>>]
     ELSE IF apiKey = Undefined \/ apiKey[1] = "" \/ ~HasTruthy(keys, apiKey[1])
     THEN [ valid |-> FALSE,
            sent |-> <<sendResponse(ErrorBody("Invalid or missing API key"), 401)>> ]
     ELSE [valid |-> TRUE, sent |-> <<>>]

\* `${req.method} ${path}`
RouteKey(req) == req.method \o " " \o req.pathname

IssueRouteKey == "GET /get-api-key"

\* the keys of routes
ExactRouteKeys ==
  { "GET /exercises", "GET /exercises/bodyPartList",
    "GET /exercises/equipmentList", "GET /exercises/targetList",
    IssueRouteKey, "GET /docs" }

KeyMessage ==
  "Your API key has been generated. Include this key with each request either as a query parameter (apiKey=key) or in the X-API-Key header."

DocsObject ==
  [ name |-> "Exercise API", version |-> "1.0.0",
    description |-> "API for accessing exercise data",
    endpoints |-> << "/get-api-key", "/exercises", "/exercises/bodyPartList",
                     "/exercises/equipmentList", "/exercises/targetList",
                     "/exercises/bodyPart/:bodyPart",
                     "/exercises/equipment/:equipment",
                     "/exercises/target/:target", "/exercises/exercise/:id",
                     "/exercises/name/:name" >> ]

\* routes[routeKey](query) for the handlers that read only the record store
RouteHandler(routeKey, query) ==
  CASE routeKey = "GET /exercises" ->
         Obj(paginateResults(
               filterExercises([key \in {"name", "bodyPart", "equipment", "target"}
                                  |-> query[key]]),
               query.limit, query.offset))
    [] routeKey = "GET /exercises/bodyPartList" -> Arr(FieldList("bodyPart"))
    [] routeKey = "GET /exercises/equipmentList" -> Arr(FieldList("equipment"))
    [] routeKey = "GET /exercises/targetList" -> Arr(FieldList("target"))
    [] routeKey = "GET /docs" -> Obj(DocsObject)

\* the object the 'GET /get-api-key' handler returns
KeyReply(apiKey) == Obj([apiKey |-> apiKey, message |-> KeyMessage])

(***************************************************************************)
(* decodeURIComponent: %XX with XX an ASCII code is replaced by its        *)
(* character; a % not followed by two hex digits throws URIError.  Codes   *)
(* from 80 up start a UTF-8 sequence, codes below 20 are control           *)
(* characters and code 60 is the grave accent, none of which a string of   *)
(* the model holds: no input of the model has one, and the model throws    *)
(* on them.                                                                *)
(***************************************************************************)
\* the characters of codes 32 to 95, and of codes 97 to 126
AsciiLow ==
  " !\"#$%&'()*+,-./0123456789:;<=>?@ABCDEFGHIJKLMNOPQRSTUVWXYZ[\\]^_"

AsciiHigh == "abcdefghijklmnopqrstuvwxyz{|}~"

CharOfCode(code) ==
  IF code < 96 THEN CharAt(AsciiLow, code - 31) ELSE CharAt(AsciiHigh, code - 96)

HexValue(c) == IndexIn(toLowerCase(c), HexDigits, 1) - 1

RECURSIVE DecodeFrom(_, _)
DecodeFrom(s, i) ==
  IF i > Len(s) THEN [threw |-> FALSE, value |-> ""]
  ELSE IF CharAt(s, i) # "%"
  THEN LET rest == DecodeFrom(s, i + 1)
       IN [threw |-> rest.threw, value |-> CharAt(s, i) \o rest.value]
  ELSE IF i + 2 > Len(s) \/ HexValue(CharAt(s, i + 1)) < 0
                         \/ HexValue(CharAt(s, i + 2)) < 0
  THEN [threw |-> TRUE, value |-> ""]
  ELSE LET code == 16 * HexValue(CharAt(s, i + 1)) + HexValue(CharAt(s, i + 2))
           rest == DecodeFrom(s, i + 3)
       IN IF code < 32 \/ code > 126 \/ code = 96
          THEN [threw |-> TRUE, value |-> ""]
          ELSE [ threw |-> rest.threw,
                 value |-> CharOfCode(code) \o rest.value ]

decodeURIComponent(s) == DecodeFrom(s, 1)

\* the keys of dynamicRoutes, in the order Object.entries lists them
dynamicRoutes ==
  << "/exercises/bodyPart/", "/exercises/equipment/", "/exercises/target/",
     "/exercises/exercise/", "/exercises/name/" >>

\* exercises.find(ex => ex.id === param)
FindExercise(param) ==
  LET hits == {i \in 1..Len(exercises) : exercises[i].id = param}
  IN IF hits = {} THEN Undefined
     ELSE Some(exercises[CHOOSE i \in hits : \A j \in hits : i <= j])

\* dynamicRoutes[prefix](param, query): the value returned or the Error thrown
DynamicHandler(prefix, param, query) ==
  CASE prefix = "/exercises/bodyPart/" ->
         [ threw |-> FALSE, message |-> "",
           value |-> Obj(paginateResults(filterExercises([key \in {"bodyPart"} |-> Some(param)]),
                                         query.limit, query.offset)) ]
    [] prefix = "/exercises/equipment/" ->
         [ threw |-> FALSE, message |-> "",
           value |-> Obj(paginateResults(filterExercises([key \in {"equipment"} |-> Some(param)]),
                                         query.limit, query.offset)) ]
    [] prefix = "/exercises/target/" ->
         [ threw |-> FALSE, message |-> "",
           value |-> Obj(paginateResults(filterExercises([key \in {"target"} |-> Some(param)]),
                                         query.limit, query.offset)) ]
    [] prefix = "/exercises/exercise/" ->
         IF FindExercise(param) = Undefined
         THEN [threw |-> TRUE, message |-> "Exercise not found", value |-> Obj(EmptyObject)]
         ELSE [threw |-> FALSE, message |-> "", value |-> Obj(FindExercise(param)[1])]
    [] prefix = "/exercises/name/" ->
         [ threw |-> FALSE, message |-> "",
           value |-> Obj(paginateResults(filterExercises([key \in {"name"} |-> Some(param)]),
                                         query.limit, query.offset)) ]

\* the catch block of the request handler
CatchResponse(message) ==
  IF message = "Unauthorized"
  THEN sendResponse(ErrorBody(message), 401)
  ELSE sendResponse(ErrorBody("Internal server error"), 500)

\* the body of the loop over dynamicRoutes for a matching prefix, without
\* the test for an empty parameter
MatchedPrefixUnchecked(prefix, path, query) ==
  LET param == sliceFrom(path, Len(prefix))
      decoded == decodeURIComponent(param)
      result == DynamicHandler(prefix, decoded.value, query)
  IN IF decoded.threw
     THEN [sent |-> <<CatchResponse("URI malformed")>>, invoked |-> <<>>]
     ELSE IF result.threw
     THEN [sent |-> <<CatchResponse(result.message)>>, invoked |-> <<prefix>>]
     ELSE [sent |-> <<sendResponse(result.value, 200)>>, invoked |-> <<prefix>>]

\* the body of the loop over dynamicRoutes for a matching prefix: what is
\* sent and which handler ran
MatchedPrefix(prefix, path, query) ==
  LET param == sliceFrom(path, Len(prefix))
      decoded == decodeURIComponent(param)
      result == DynamicHandler(prefix, decoded.value, query)
  IN IF param = ""
     THEN [ sent |-> <<sendResponse(ErrorBody("Parameter required"), 400)>>,
            invoked |-> <<>> ]
     ELSE IF decoded.threw
     THEN [sent |-> <<CatchResponse("URI malformed")>>, invoked |-> <<>>]
     ELSE IF result.threw
     THEN [sent |-> <<CatchResponse(result.message)>>, invoked |-> <<prefix>>]
     ELSE [sent |-> <<sendResponse(result.value, 200)>>, invoked |-> <<prefix>>]

RECURSIVE DynamicDispatch(_, _, _)
\* the loop over dynamicRoutes from entry i on, then the 404
DynamicDispatch(path, query, i) ==
  IF i > Len(dynamicRoutes)
  THEN [sent |-> <<sendResponse(ErrorBody("Not found"), 404)>>, invoked |-> <<>>]
  ELSE IF startsWith(path, dynamicRoutes[i])
  THEN MatchedPrefix(dynamicRoutes[i], path, query)
  ELSE DynamicDispatch(path, query, i + 1)

(***************************************************************************)
(* Inputs.                                                                 *)
(***************************************************************************)
\* values of crypto.randomBytes(24).toString('hex'), shortened
HexTokens == {"a3f1c0", "b7c29e"}

\* values of Date.now()
Timestamps == {1, 2}

Methods == {"GET", "POST", "OPTIONS"}

Paths ==
  { "/docs", "/get-api-key", "/exercises", "/exercises/bodyPartList",
    "/exercises/equipmentList", "/exercises/targetList",
    "/exercises/bodyPart/", "/exercises/equipment/", "/exercises/target/",
    "/exercises/exercise/", "/exercises/name/",
    "/exercises/bodyPart/CHEST", "/exercises/equipment/body%20weight",
    "/exercises/target/abs", "/exercises/exercise/0001",
    "/exercises/exercise/9999", "/exercises/name/UP", "/exercises/name/%",
    "/nope" }

\* what a client may present as its key
PresentedKeys ==
  {Undefined, Some("a3f1c0"), Some("not-a-real-token"), Some("constructor")}

QueryParams ==
  { [ limit |-> Undefined, offset |-> Undefined, name |-> Undefined,
      bodyPart |-> Undefined, equipment |-> Undefined, target |-> Undefined ],
    [ limit |-> Some("1"), offset |-> Some("1"), name |-> Undefined,
      bodyPart |-> Some("CHEST"), equipment |-> Undefined, target |-> Undefined ] }

WithKey(params, apiKey) ==
  [ apiKey |-> apiKey, limit |-> params.limit, offset |-> params.offset,
    name |-> params.name, bodyPart |-> params.bodyPart,
    equipment |-> params.equipment, target |-> params.target ]

Requests ==
  { [ method |-> m, pathname |-> p, query |-> WithKey(q, k), xApiKey |-> h ] :
      m \in Methods, p \in Paths, q \in QueryParams,
      k \in PresentedKeys, h \in PresentedKeys }

\* the requests of a pipelining client
PipelinedRequests ==
  LET q == CHOOSE x \in QueryParams : x.limit = Undefined
  IN { [ method |-> "GET", pathname |-> "/get-api-key",
         query |-> WithKey(q, Undefined), xApiKey |-> Undefined ],
       [ method |-> "GET", pathname |-> "/exercises",
         query |-> WithKey(q, Undefined), xApiKey |-> Undefined ],
       [ method |-> "GET", pathname |-> "/exercises",
         query |-> WithKey(q, Some("a3f1c0")), xApiKey |-> Undefined ],
       [ method |-> "GET", pathname |-> "/exercises/exercise/0001",
         query |-> WithKey(q, Undefined), xApiKey |-> Some("a3f1c0") ],
       [ method |-> "OPTIONS", pathname |-> "/exercises",
         query |-> WithKey(q, Undefined), xApiKey |-> Undefined ] }

\* api-keys.json as the process may find it at startup: missing, unreadable
\* as JSON, or as an earlier run wrote it
StartFiles == {NoFile, BrokenFile, JsonFile(<< <<"a3f1c0", 1>> >>)}

WindowInputs ==
  {Undefined} \cup
  {Some(x) : x \in {"", "abc", "0", "1", "2", "3", "4", "20", "-1", "-2", " 2", "2x", "0x2"}}

RECURSIVE Items(_)
\* a sequence of n distinct items
Items(n) == IF n = 0 THEN <<>> ELSE Append(Items(n - 1), n)

(***************************************************************************)
(* State.                                                                  *)
(***************************************************************************)
VARIABLES
  API_KEYS,     \* the in-memory key mapping
  keysFile,     \* api-keys.json
  saveLog,      \* the line the latest saveApiKeys logged, "" before any
  microtasks,   \* request handlers suspended at the await, oldest first
  last,         \* the request whose handler has just finished, with what
                \* was sent for it and the route handlers invoked for it,
                \* until the client has read the response
  loaded,       \* the keys loadApiKeys found at startup
  issued,       \* the tokens generateApiKey has returned
  call,         \* the arguments of the latest paginateResults call checked
  page          \* what that call returned

vars == <<API_KEYS, keysFile, saveLog, microtasks, last, loaded, issued, call, page>>

NoRequest ==
  [ method |-> "", pathname |-> "",
    query |-> WithKey(CHOOSE q \in QueryParams : q.limit = Undefined, Undefined),
    xApiKey |-> Undefined ]

Idle == [req |-> NoRequest, sent |-> <<>>, invoked |-> <<>>, saved |-> ""]

NoCall == [data |-> <<>>, limit |-> Undefined, offset |-> Undefined]

Paginate(c) == paginateResults(c.data, c.limit, c.offset)

Init ==
  /\ keysFile \in StartFiles
  /\ API_KEYS = loadApiKeys(keysFile)
  /\ loaded = OwnKeys(API_KEYS)
  /\ issued = {}
  /\ saveLog = ""
  /\ microtasks = <<>>
  /\ last = Idle
  /\ call = NoCall
  /\ page = Paginate(NoCall)

\* a handler that ran to its end
Finish(req, sent, invoked, saved) ==
  last' = [req |-> req, sent |-> sent, invoked |-> invoked, saved |-> saved]

\* The client reads the response.  A handler starts only when the previous
\* response has been read (last = Idle): this orders what is observed, the
\* program's own state is not touched by it.
Deliver ==
  /\ last # Idle
  /\ last' = Idle
  /\ UNCHANGED <<API_KEYS, keysFile, saveLog, microtasks, loaded, issued, call, page>>

\* lines 262-265: the CORS preflight
Preflight(req) ==
  /\ last = Idle
  /\ req.method = "OPTIONS"
  /\ Finish(req, <<sendResponse(Obj(EmptyObject), 200)>>, <<>>, "")
  /\ UNCHANGED <<API_KEYS, keysFile, saveLog, microtasks, loaded, issued, call, page>>

\* lines 276-278: the key gate turns the request away
Reject(req) ==
  /\ last = Idle
  /\ req.method # "OPTIONS"
  /\ ~validateApiKey(req, API_KEYS).valid
  /\ Finish(req, validateApiKey(req, API_KEYS).sent, <<>>, "")
  /\ UNCHANGED <<API_KEYS, keysFile, saveLog, microtasks, loaded, issued, call, page>>

\* lines 281-283: an exact route that reads the record store runs and the
\* handler suspends at the await
ExactRoute(req) ==
  /\ last = Idle
  /\ req.method # "OPTIONS"
  /\ validateApiKey(req, API_KEYS).valid
  /\ RouteKey(req) \in ExactRouteKeys \ {IssueRouteKey}
  /\ microtasks' = Append(microtasks,
       [ req |-> req, sent |-> validateApiKey(req, API_KEYS).sent,
         invoked |-> <<RouteKey(req)>>, saved |-> "",
         result |-> RouteHandler(RouteKey(req), req.query) ])
  /\ UNCHANGED <<API_KEYS, keysFile, saveLog, last, loaded, issued, call, page>>

\* lines 281-283 for 'GET /get-api-key': generateApiKey adds the key and
\* rewrites the file, then the handler suspends at the await
IssueKey(req, apiKey, now, outcome) ==
  /\ last = Idle
  /\ req.method # "OPTIONS"
  /\ validateApiKey(req, API_KEYS).valid
  /\ RouteKey(req) = IssueRouteKey
  /\ LET g == generateApiKey(API_KEYS, keysFile, apiKey, now, outcome)
     IN /\ API_KEYS' = g.keys
        /\ keysFile' = g.file
        /\ saveLog' = g.log
        /\ issued' = issued \cup {g.apiKey}
        /\ microtasks' = Append(microtasks,
             [ req |-> req, sent |-> validateApiKey(req, API_KEYS).sent,
               invoked |-> <<RouteKey(req)>>, saved |-> g.log,
               result |-> KeyReply(g.apiKey) ])
  /\ UNCHANGED <<last, loaded, call, page>>

\* line 284: the suspended handler at the head of the microtask queue
\* resumes and sends its route's result
Resume ==
  /\ last = Idle
  /\ microtasks # <<>>
  /\ LET c == Head(microtasks)
     IN Finish(c.req, Append(c.sent, sendResponse(c.result, 200)), c.invoked, c.saved)
  /\ microtasks' = Tail(microtasks)
  /\ UNCHANGED <<API_KEYS, keysFile, saveLog, loaded, issued, call, page>>

\* lines 288-303 and the catch: the prefix routes, then the 404
Dynamic(req) ==
  /\ last = Idle
  /\ req.method # "OPTIONS"
  /\ validateApiKey(req, API_KEYS).valid
  /\ RouteKey(req) \notin ExactRouteKeys
  /\ LET d == DynamicDispatch(req.pathname, req.query, 1)
     IN Finish(req, validateApiKey(req, API_KEYS).sent \o d.sent, d.invoked, "")
  /\ UNCHANGED <<API_KEYS, keysFile, saveLog, microtasks, loaded, issued, call, page>>

(***************************************************************************)
(* Spec: each request reaches the server in a read of its own, so the      *)
(* microtask queue is drained (the suspended handler has resumed) before   *)
(* the next request's handler starts.  The requests are all of Requests.   *)
(***************************************************************************)
Drained == microtasks = <<>> /\ last = Idle

Next ==
  \/ Drained /\ \E req \in Requests : Preflight(req)
  \/ Drained /\ \E req \in Requests : Reject(req)
  \/ Drained /\ \E req \in Requests : ExactRoute(req)
  \/ Drained /\ \E req \in Requests, apiKey \in HexTokens, now \in Timestamps,
                    outcome \in WriteOutcomes : IssueKey(req, apiKey, now, outcome)
  \/ Resume
  \/ Drained /\ \E req \in Requests : Dynamic(req)
  \/ Deliver

Spec == Init /\ [][Next]_vars

(***************************************************************************)
(* SpecPipelined: a client pipelines requests, so that one read delivers   *)
(* several and the handler of each runs up to its await before any of them *)
(* resumes; at most MaxPending handlers are suspended at a time.           *)
(***************************************************************************)
Room == Len(microtasks) < MaxPending /\ last = Idle

NextPipelined ==
  \/ \E req \in PipelinedRequests : Preflight(req)
  \/ \E req \in PipelinedRequests : Reject(req)
  \/ Room /\ \E req \in PipelinedRequests : ExactRoute(req)
  \/ Room /\ \E req \in PipelinedRequests, apiKey \in HexTokens, now \in Timestamps,
                 outcome \in WriteOutcomes : IssueKey(req, apiKey, now, outcome)
  \/ Resume
  \/ \E req \in PipelinedRequests : Dynamic(req)
  \/ Deliver

SpecPipelined == Init /\ [][NextPipelined]_vars

(***************************************************************************)
(* SpecPaginate: paginateResults on its own, called with a sequence of up  *)
(* to MaxData items and a limit and an offset as a query string may carry  *)
(* them.                                                                   *)
(***************************************************************************)
Calls ==
  { [data |-> Items(n), limit |-> l, offset |-> o] :
      n \in 0..MaxData, l \in WindowInputs, o \in WindowInputs }

InitPaginate ==
  /\ keysFile = NoFile
  /\ API_KEYS = loadApiKeys(keysFile)
  /\ loaded = {}
  /\ issued = {}
  /\ saveLog = ""
  /\ microtasks = <<>>
  /\ last = Idle
  /\ call = NoCall
  /\ page = Paginate(NoCall)

CallPaginate(c) ==
  /\ call = NoCall
  /\ call' = c
  /\ page' = Paginate(c)
  /\ UNCHANGED <<API_KEYS, keysFile, saveLog, microtasks, last, loaded, issued>>

\* the caller takes the page
ReturnPage ==
  /\ call # NoCall
  /\ call' = NoCall
  /\ page' = Paginate(NoCall)
  /\ UNCHANGED <<API_KEYS, keysFile, saveLog, microtasks, last, loaded, issued>>

NextPaginate ==
  \/ \E c \in Calls : CallPaginate(c)
  \/ ReturnPage

SpecPaginate == InitPaginate /\ [][NextPaginate]_vars

(***************************************************************************)
(* Vocabulary of the properties.                                           *)
(***************************************************************************)
Answered == last # Idle

\* the key validateApiKey looks at: the query parameter, else the header
PresentedKey(req) == OrElse(req.query.apiKey, req.xApiKey)

\* k is no key at all, or no key of the store
AbsentKey(k) == k = Undefined \/ k[1] \notin OwnKeys(API_KEYS)

HoldsValidKey(req) ==
  /\ PresentedKey(req) # Undefined
  /\ PresentedKey(req)[1] \in OwnKeys(API_KEYS)

StatusOf(x) == x.sent[Len(x.sent)].statusCode

BodyOf(x) == x.sent[Len(x.sent)].data

IsErrorEnvelope(data) ==
  /\ data.type = "object"
  /\ DOMAIN data.value = {"error"}

\* GET /exercises presenting the token t in the X-API-Key header
Probe(t) ==
  [ method |-> "GET", pathname |-> "/exercises",
    query |-> NoRequest.query, xApiKey |-> Some(t) ]

FileHoldsMapping ==
  /\ keysFile.kind = "json"
  /\ JSONparse(keysFile.text) = API_KEYS

(***************************************************************************)
(* C1.  A request that is not OPTIONS, whose path is neither /docs nor     *)
(* /get-api-key and whose apiKey parameter and X-API-Key header each hold  *)
(* no key or a key that is not in the key store is answered 401 and no     *)
(* route handler runs for it; such a GET request to /docs is answered 200. *)
(***************************************************************************)
C1_KeylessIsRejected ==
  ( /\ Answered
    /\ last.req.method # "OPTIONS"
    /\ AbsentKey(last.req.query.apiKey)
    /\ AbsentKey(last.req.xApiKey) )
  => /\ last.req.pathname \notin PublicPaths
          => /\ Len(last.sent) = 1
             /\ StatusOf(last) = 401
             /\ last.invoked = <<>>
     /\ (last.req.pathname = "/docs" /\ last.req.method = "GET")
          => StatusOf(last) = 200

(***************************************************************************)
(* C2.  Every token generateApiKey has returned is accepted by             *)
(* validateApiKey in every later state, whatever was requested in between  *)
(* and whether or not the file was written; the token a /get-api-key       *)
(* response carries is such a token.                                       *)
(***************************************************************************)
C2_IssuedStaysValid ==
  /\ \A t \in issued : validateApiKey(Probe(t), API_KEYS).valid
  /\ (Answered /\ RouteKey(last.req) = IssueRouteKey)
       => BodyOf(last).value.apiKey \in issued

\* two tokens were issued, the second write failed, and the response that
\* carries a token has been sent
C2_Witness ==
  /\ Cardinality(issued) = 2
  /\ saveLog = SaveErrorMessage
  /\ Answered
  /\ RouteKey(last.req) = IssueRouteKey
  /\ StatusOf(last) = 200

(***************************************************************************)
(* C3.  A request to a protected route passes the key gate if and only if  *)
(* the key it presents was loaded from the file at startup or issued by    *)
(* generateApiKey since; presenting any other string it is answered 401.   *)
(***************************************************************************)
C3_OnlyStoredKeysAccepted ==
  ( /\ Answered
    /\ last.req.method # "OPTIONS"
    /\ last.req.pathname \notin PublicPaths )
  => ( StatusOf(last) # 401
         <=> /\ PresentedKey(last.req) # Undefined
             /\ PresentedKey(last.req)[1] \in loaded \cup issued )

(***************************************************************************)
(* C4.  GET /exercises/exercise/{id} with a valid key and an id that no    *)
(* record has is answered 404 with an {error} body.                        *)
(***************************************************************************)
C4_UnknownIdIsNotFound ==
  ( /\ Answered
    /\ last.req.method = "GET"
    /\ HoldsValidKey(last.req)
    /\ startsWith(last.req.pathname, "/exercises/exercise/")
    /\ LET id == decodeURIComponent(sliceFrom(last.req.pathname,
                                              Len("/exercises/exercise/")))
       IN ~id.threw /\ id.value # "" /\ FindExercise(id.value) = Undefined )
  => /\ Len(last.sent) = 1
     /\ StatusOf(last) = 404
     /\ IsErrorEnvelope(BodyOf(last))

(***************************************************************************)
(* C5.  paginateResults replaces a negative or non-numeric limit by 20 and *)
(* a negative or non-numeric offset by 0: the window it uses has limit > 0 *)
(* and offset >= 0 and its result is the one for the replaced values.      *)
(***************************************************************************)
ClaimedLimit(limit) ==
  IF parseInt(limit) = <<>> \/ parseInt(limit)[1] <= 0
  THEN DEFAULT_LIMIT ELSE parseInt(limit)[1]

ClaimedOffset(offset) ==
  IF parseInt(offset) = <<>> \/ parseInt(offset)[1] < 0
  THEN 0 ELSE parseInt(offset)[1]

C5_WindowIsCoerced ==
  /\ ClaimedLimit(call.limit) > 0
  /\ ClaimedOffset(call.offset) >= 0
  /\ page = PageOf(call.data, ClaimedLimit(call.limit), ClaimedOffset(call.offset))

(***************************************************************************)
(* C6.  When the offset paginateResults uses is at or past the end of the  *)
(* sequence, results is empty and next is null, and count is the length of *)
(* the sequence.                                                           *)
(***************************************************************************)
C6_OffsetPastEnd ==
  ParsedOffset(call.offset) >= Len(call.data)
  => /\ page.results = <<>>
     /\ page.next = Null
     /\ page.count = Len(call.data)

(***************************************************************************)
(* C7.  previous is null whenever the offset is not a number or is <= 0;   *)
(* when previous is not null, the offset its link carries is               *)
(* max(0, offset - limit), which is >= 0.                                  *)
(***************************************************************************)
C7_PreviousLink ==
  /\ (parseInt(call.offset) = <<>> \/ parseInt(call.offset)[1] <= 0)
       => page.previous = Null
  /\ page.previous # Null
       => /\ LinkOffset(page.previous[1])
               = Some(Max(0, ParsedOffset(call.offset) - ParsedLimit(call.limit)))
          /\ LinkOffset(page.previous[1])[1] >= 0

\* a call whose offset is positive and smaller than its limit: the link
\* is clamped to offset 0
C7_Witness ==
  /\ call # NoCall
  /\ ParsedOffset(call.offset) > 0
  /\ ParsedOffset(call.offset) < ParsedLimit(call.limit)
  /\ page.previous # Null
  /\ LinkOffset(page.previous[1]) = Some(0)

(***************************************************************************)
(* C8, as claimed.  When a GET /get-api-key response is sent and the write *)
(* of that issuance did not fail, the file holds exactly the in-memory key *)
(* mapping at that moment.                                                 *)
(***************************************************************************)
C8_FileHoldsMappingAtResponse ==
  ( /\ Answered
    /\ RouteKey(last.req) = IssueRouteKey
    /\ last.saved = SavedMessage )
  => FileHoldsMapping

(***************************************************************************)
(* C8, amended.  When generateApiKey returns and its write did not fail,   *)
(* the file holds exactly the in-memory key mapping, and it goes on        *)
(* holding it until the next issuance: whenever the latest saveApiKeys     *)
(* logged success, file and mapping agree.                                 *)
(***************************************************************************)
C8_FileHoldsMappingAfterSave ==
  saveLog = SavedMessage => FileHoldsMapping

\* a second issuance has written a file of two keys, after an earlier
\* write failed
C8_Witness ==
  /\ saveLog = SavedMessage
  /\ Len(API_KEYS) = 2
  /\ Len(keysFile.text) = 2
  /\ \E i \in 1..Len(microtasks) : microtasks[i].saved = SaveErrorMessage

(***************************************************************************)
(* C9, as claimed.  A request with a valid key whose path is exactly one   *)
(* of the registered prefixes is answered 400 with an {error} body and the *)
(* prefix handler does not run.                                            *)
(***************************************************************************)
IsBarePrefix(path) == \E i \in 1..Len(dynamicRoutes) : path = dynamicRoutes[i]

C9_BarePrefixIsRefused ==
  ( /\ Answered
    /\ HoldsValidKey(last.req)
    /\ IsBarePrefix(last.req.pathname) )
  => /\ Len(last.sent) = 1
     /\ StatusOf(last) = 400
     /\ IsErrorEnvelope(BodyOf(last))
     /\ last.invoked = <<>>

(***************************************************************************)
(* C9, amended.  A request that is not OPTIONS, with a valid key, whose    *)
(* path is exactly one of the registered prefixes is answered 400 with an  *)
(* {error} body and the prefix handler does not run.                       *)
(***************************************************************************)
C9_BarePrefixIsRefusedUnlessPreflight ==
  ( /\ Answered
    /\ last.req.method # "OPTIONS"
    /\ HoldsValidKey(last.req)
    /\ IsBarePrefix(last.req.pathname) )
  => /\ Len(last.sent) = 1
     /\ StatusOf(last) = 400
     /\ IsErrorEnvelope(BodyOf(last))
     /\ last.invoked = <<>>

\* a request with a valid key for the last registered prefix was refused
C9_Witness ==
  /\ Answered
  /\ last.req.method = "GET"
  /\ HoldsValidKey(last.req)
  /\ last.req.pathname = "/exercises/name/"
  /\ StatusOf(last) = 400

(***************************************************************************)
(* C10.  A handler that has run to its end has sent exactly one response,  *)
(* a handler suspended at the await has sent none yet, and a response      *)
(* whose status is not 200 carries an {error} body.                        *)
(***************************************************************************)
C10_OneResponse ==
  /\ Answered
       => /\ Len(last.sent) = 1
          /\ StatusOf(last) # 200 => IsErrorEnvelope(BodyOf(last))
  /\ \A i \in 1..Len(microtasks) : microtasks[i].sent = <<>>

\* a prefix handler threw and the catch block answered, once
C10_Witness ==
  /\ Answered
  /\ last.invoked = <<"/exercises/exercise/">>
  /\ Len(last.sent) = 1
  /\ StatusOf(last) = 500
  /\ IsErrorEnvelope(BodyOf(last))

====
